---- MODULE Spec2Model ----
(***************************************************************************)
(* The GB Track Specialist runner:                                         *)
(*   run_continuous_scheduled.py  ScheduledGBBettingRunner (poll loop,     *)
(*                                _schedule_race, timer callbacks,         *)
(*                                shutdown)                                *)
(*   gb_betting_system.py         GBBettingSystem (process_race,           *)
(*                                place_bet, result checker)               *)
(*   gb_track_specialist_predictor.py  identify_betting_opportunities      *)
(*   database_helper.py           DatabaseHelper.log_race, log_bet         *)
(*                                (signatures)                             *)
(*   betfair_client.py            BetfairClient (time window of the poll,  *)
(*                                _make_api_request)                       *)
(* Time is counted in minutes.  The poll loop is one thread, every         *)
(* threading.Timer is a thread of its own; steps are taken at the          *)
(* granularity of the locks the code takes, in every interleaving.  Time   *)
(* passes only while every thread is asleep, waiting for its timer, or     *)
(* inside process_race (the network calls); process_race takes any time.   *)
(*                                                                         *)
(* Spec is the runner with the DatabaseHelper of the repository.  Its      *)
(* process_race calls end at db.log_race, so pending_results stays empty   *)
(* and the passes of the result checker find nothing; they are left out    *)
(* of Spec.  TrackerSpec is the betting system with its result checker,    *)
(* called for upcoming markets, on a persistence sink that accepts the     *)
(* calls process_race makes.  A pass of its result checker lists the due   *)
(* entries in one step of its own, which an insertion into pending_results *)
(* by another thread breaks (RuntimeError, caught at line 560).            *)
(* FairSpec and TrackerFairSpec add the progress of the poll loop thread and*)
(* of the result checker thread.  Spec starts at __main__, which validates *)
(* the configuration before it constructs the runner.                      *)
(*                                                                         *)
(* SystemSpec is the runner together with the betting system on the        *)
(* accepting sink and the result checker, without the shutdown signal.     *)
(* PredictorSpec is identify_betting_opportunities applied to the          *)
(* predictions of one race.  LockSpec is the two locks of the runner, each *)
(* entry into and exit from a with block a step of its own.  ApiSpec is    *)
(* _make_api_request of betfair_client.py with its login() retry.          *)
(***************************************************************************)
EXTENDS Integers, Sequences, FiniteSets, TLC

\* ---- bounds of the model -------------------------------------------------
MaxTime == 5
MaxStart == 4
MaxCalls == 2
\* minutes the outcome queries of one pass of the result checker may take
MaxPass == 1
\* number of _make_api_request calls a client makes
MaxRequests == 3

\* gb_betting_system.py:73
result_check_delay_minutes == 45

\* ---- data of the environment ---------------------------------------------
Ids == {"m1", "m2"}
ScanIntervals == {3}
LeadTimes == {-1, 0, 2, 3, 4}
StartTimes == 0..MaxStart
\* the start of a market that is still upcoming when the results of the
\* earliest market are checked
LateStart == result_check_delay_minutes
Selections == <<1, 2, 3>>
\* best back price of each selection, in tenths
Prices == <<75, 150, 30>>
\* the selection nobody offers a price for
NoPriceSelection == 3
None == "None"
\* what the model predicts for a race: nothing, a top runner that qualifies
\* ahead of a second that would qualify too, a top runner that does not
PredictionInputs ==
    { <<>>,
      <<[selection_id |-> 1, ltp |-> 75, p |-> 40], [selection_id |-> 2, ltp |-> 150, p |-> 30]>>,
      <<[selection_id |-> 1, ltp |-> 75, p |-> 30], [selection_id |-> 2, ltp |-> 150, p |-> 28]>> }
\* answers of the exchange to placeOrders; "none": no usable answer
ApiAnswers == {"SUCCESS", "none"}

VARIABLES
    now,                         \* wall clock, minutes
    running,                     \* self.running
    scan_interval_minutes,       \* self.scan_interval_minutes
    target_minutes_before_race,  \* self.target_minutes_before_race
    race_time,                   \* start time of each market known to the exchange
    prediction_results,          \* the predictions a call of the predictor is made on
    identified,                  \* what identify_betting_opportunities returned for them
    scheduled_races_lock,        \* the thread inside a with self.scheduled_races_lock block
    timers_lock,                 \* the thread inside a with self.timers_lock block
    lock_pc,                     \* thread -> the line of its next lock operation
    api_request,                 \* the BetfairClient and its _make_api_request call
    scheduled_races,             \* self.scheduled_races
    active_timers,               \* self.active_timers: market_id -> timer handle, 0 = no entry
    timers,                      \* every threading.Timer created so far, handle = index
    pc,                          \* position of the poll loop thread
    races,                       \* rest of the list the scan loop iterates
    next_scan,                   \* scan_start + scan interval
    all_races_log,
    all_runners_log,
    all_predictions_log,
    bets_placed_log,
    pending_results,             \* market_id -> check_time
    dry_run,                     \* self.dry_run
    orders,                      \* the placeOrders requests sent to the exchange
    rc_pc,                       \* position of the result checker thread
    markets_to_check,            \* rest of the list the sweep iterates
    rc_wake,                     \* end of the sleep of the result checker
    rc_now,                      \* now of line 546, taken when the pass began
    checks,                      \* market_id -> the _check_race_result calls made for it,
                                 \* each with the now of the pass that made it
    removals,                    \* market_id -> number of del pending_results[market_id]
    last_call,                   \* how the latest process_race call of another caller ended
    \* history of the run, read by the properties only
    invocations,                 \* market_id -> number of process_race calls
    reserved_count,              \* market_id -> number of scheduled_races.add
    released_count,              \* market_id -> number of discards that removed the id
    handed_early,                \* market_id -> process_race was called no later than the start time
    first_poll,                  \* time of the first poll, -1 before it
    sync_call,                   \* how the process_race call of the poll thread ended
    flushed,                     \* the four logs as the latest save_logs wrote them
    saves_after_signal           \* number of save_logs calls made since running is False

vars == <<now, running, scan_interval_minutes, target_minutes_before_race, race_time,
          prediction_results, identified, scheduled_races_lock, timers_lock, lock_pc,
          api_request,
          scheduled_races, active_timers, timers, pc, races, next_scan,
          all_races_log, all_runners_log, all_predictions_log, bets_placed_log,
          pending_results, dry_run, orders, rc_pc, markets_to_check, rc_wake,
          rc_now, checks, removals, last_call, invocations, reserved_count,
          released_count, handed_early, first_poll, sync_call, flushed,
          saves_after_signal>>

\* what no step of the runner or of the betting system changes
configVars == <<scan_interval_minutes, target_minutes_before_race, race_time,
                prediction_results, identified, scheduled_races_lock, timers_lock, lock_pc,
                api_request>>
\* the two locks and the threads that take them
lockVars == <<scheduled_races_lock, timers_lock, lock_pc>>
\* the logs of the betting system, its pending results and the requests it sent
logVars == <<all_races_log, all_runners_log, all_predictions_log, bets_placed_log,
             pending_results, orders>>
\* the result checker thread
checkerVars == <<rc_pc, markets_to_check, rc_wake, rc_now, checks, removals>>
sysVars == <<logVars, checkerVars, dry_run, last_call>>
\* the scheduler of run_continuous_scheduled.py
runnerVars == <<running, scan_interval_minutes, target_minutes_before_race,
                scheduled_races, active_timers, timers, pc, races, next_scan,
                invocations, reserved_count, released_count, handed_early,
                first_poll, sync_call, flushed, saves_after_signal>>
\* what is known of the save_logs calls
flushVars == <<flushed, saves_after_signal>>

Handles == 1..Len(timers)

\* ---- helpers ---------------------------------------------------------------
\* the orders in which the exchange may list a set of markets
Orders(S) == { s \in [1..Cardinality(S) -> S] : \A a \in S : \E i \in DOMAIN s : s[i] = a }

\* ---- betfair_client.py -----------------------------------------------------
\* get_upcoming_greyhound_races: the markets whose start lies in [now, now + hours_ahead]
UpcomingRaces(t, window) == { m \in Ids : t <= race_time[m] /\ race_time[m] <= t + window }

\* ---- database_helper.py ----------------------------------------------------
\* parameters of DatabaseHelper.log_race besides self
LogRaceParams == {"race_data"}
\* keywords of the call in process_race
LogRaceCallKeywords == {"market_id", "venue", "race_time", "distance", "race_grade",
                        "num_runners", "session_id"}

\* Python binds a keyword-only call iff every keyword names a parameter and
\* every parameter without default is supplied; otherwise TypeError
CallBinds(keywords, params) == keywords \subseteq params /\ params \subseteq keywords

LogRaceCallBinds == CallBinds(LogRaceCallKeywords, LogRaceParams)

\* parameters of DatabaseHelper.log_bet besides self, and the keywords of the
\* call in process_race
LogBetParams == {"bet_data"}
LogBetCallKeywords == {"market_id", "selection_id", "runner_name", "odds", "stake",
                       "strategy", "win_probability", "session_id"}
LogBetCallBinds == CallBinds(LogBetCallKeywords, LogBetParams)

\* ---- gb_track_specialist_predictor.py --------------------------------------
\* odds are counted in tenths (50 = 5.0), probabilities in percent, stakes in
\* dollars, returns and profits in tenths of a dollar
midrange_min_odds == 50
midrange_max_odds == 100
midrange_min_probability == 35
longshot_min_odds == 100
longshot_max_odds == 200
longshot_min_probability == 25
midrange_stake == 10
longshot_stake == 5

\* max(predictions, key=calibrated probability): the first of the maximal ones
TopRunner(preds) ==
    preds[CHOOSE i \in DOMAIN preds :
            /\ \A j \in DOMAIN preds : preds[j].p <= preds[i].p
            /\ \A j \in 1..(i - 1) : preds[j].p < preds[i].p]

InMidrange(r) == midrange_min_odds <= r.ltp /\ r.ltp <= midrange_max_odds
InLongshot(r) == ~InMidrange(r) /\ longshot_min_odds <= r.ltp /\ r.ltp <= longshot_max_odds

\* lines 120-149: the runner passes the threshold of the band its odds are in
Qualifies(r) ==
    \/ InMidrange(r) /\ r.p >= midrange_min_probability
    \/ InLongshot(r) /\ r.p >= longshot_min_probability

create_opportunity(m, r) ==
    [market_id |-> m, selection_id |-> r.selection_id, runner_odds |-> r.ltp,
     strategy |-> IF InMidrange(r) THEN "MIDRANGE" ELSE "LONGSHOT",
     stake_recommendation |-> IF InMidrange(r) THEN midrange_stake ELSE longshot_stake]

\* identify_betting_opportunities: the list holds the top runner when it
\* qualifies and is empty otherwise
identify_betting_opportunitiesMut(m, preds) ==
    [i \in 1..Len(SelectSeq(preds, Qualifies)) |->
        create_opportunity(m, SelectSeq(preds, Qualifies)[i])]
identify_betting_opportunities(m, preds) ==
    IF preds = <<>> THEN <<>>
    ELSE IF Qualifies(TopRunner(preds))
         THEN <<create_opportunity(m, TopRunner(preds))>>
         ELSE <<>>

\* ---- gb_betting_system.py --------------------------------------------------
\* a key of a dict that has not been set: <<>>, and <<v>> once it holds v
Unset == <<>>
\* the market_id of a record that has no such key
Absent == "absent"

\* the runners of a race as get_race_data builds them; ltp is the best back
\* price, None (Unset) when nothing is offered
Runners ==
    [i \in DOMAIN Selections |->
        [selection_id |-> Selections[i],
         ltp |-> IF Selections[i] = NoPriceSelection THEN Unset ELSE <<Prices[i]>>]]

\* get_race_data: nothing (found = FALSE) when the catalogue or the market book
\* is empty or the request raised, otherwise the race record with its runners
get_race_dataMut(m, hyd) ==
    [found |-> TRUE, market_id |-> m, race_time |-> race_time[m], runners |-> Runners]
get_race_data(m, hyd) ==
    IF hyd = "none" THEN [found |-> FALSE, market_id |-> m, race_time |-> 0, runners |-> <<>>]
    ELSE [found |-> TRUE, market_id |-> m, race_time |-> race_time[m], runners |-> Runners]

\* lines 267-272
RaceLog(rd) ==
    [market_id |-> rd.market_id, race_time |-> rd.race_time, runners |-> rd.runners,
     winner_selection_id |-> Unset, winner_odds |-> Unset]

\* lines 275-283
RunnerLogsMut(rd) == <<>>
RunnerLogs(rd) ==
    [i \in 1..Len(rd.runners) |->
        [market_id |-> rd.market_id, selection_id |-> rd.runners[i].selection_id]]

\* lines 325-343
PredictionLogs(m, preds) ==
    [i \in 1..Len(preds) |->
        [market_id |-> m, selection_id |-> preds[i].selection_id, p |-> preds[i].p]]

\* the record place_bet returns when the order was simulated or answered
BetRecord(opportunity, status) ==
    [market_id |-> opportunity.market_id, selection_id |-> opportunity.selection_id,
     runner_odds |-> opportunity.runner_odds, stake |-> opportunity.stake_recommendation,
     status |-> status, won |-> Unset, returns |-> Unset, profit |-> Unset]

\* lines 467-474: the record of a placement that raised has neither market_id
\* nor selection_id, odds or stake (read as 0 where the code uses a default)
ErrorBet ==
    [market_id |-> Absent, selection_id |-> 0, runner_odds |-> 0, stake |-> 0,
     status |-> "ERROR", won |-> Unset, returns |-> Unset, profit |-> Unset]

\* place_bet(opportunity): the record returned and the placeOrders requests
\* sent.  api is the answer of the exchange in live mode: a status, or "none"
\* when _make_api_request returned None (result.get then raises inside the try)
place_betMut(opportunity, dry, api) ==
    [bet |-> BetRecord(opportunity, "SIMULATED"),
     requests |-> <<[market_id |-> opportunity.market_id,
                     selection_id |-> opportunity.selection_id, answer |-> api]>>]
place_bet(opportunity, dry, api) ==
    IF dry
    THEN [bet |-> BetRecord(opportunity, "SIMULATED"), requests |-> <<>>]
    ELSE [bet |-> IF api = "none" THEN ErrorBet ELSE BetRecord(opportunity, api),
          requests |-> <<[market_id |-> opportunity.market_id,
                          selection_id |-> opportunity.selection_id, answer |-> api]>>]

\* lines 354-373: the loop over the opportunities.  binds says whether the
\* keyword call of db.log_bet is accepted; when it is not, the TypeError
\* leaves the loop after the first bet whose status is not ERROR
RECURSIVE PlaceBets(_, _, _, _)
PlaceBets(opps, dry, api, binds) ==
    IF opps = <<>>
    THEN [bets |-> <<>>, requests |-> <<>>, raised |-> FALSE, effects |-> <<>>]
    ELSE LET r == place_bet(Head(opps), dry, api)
             logged == r.bet.status # "ERROR"
             eff == <<"place_bet", "bets_placed_log.append">>
                        \o (IF logged THEN <<"db.log_bet">> ELSE <<>>)
         IN IF logged /\ ~binds
            THEN [bets |-> <<r.bet>>, requests |-> r.requests, raised |-> TRUE,
                  effects |-> eff]
            ELSE LET rest == PlaceBets(Tail(opps), dry, api, binds)
                 IN [bets |-> <<r.bet>> \o rest.bets,
                     requests |-> r.requests \o rest.requests,
                     raised |-> rest.raised, effects |-> eff \o rest.effects]

\* process_race(market_id): the values of the logs, of pending_results and of
\* the requests sent after the call, how the call ended, and its side effects
\* in the order they were made.  preds are the predictions of the model for
\* the race, sink says which keyword calls the persistence sink accepts.
process_race(m, hyd, preds, api, sink) ==
    LET rd == get_race_data(m, hyd) IN
    IF ~rd.found
    THEN [result |-> "ERROR", raised |-> FALSE,
          races |-> all_races_log, runners |-> all_runners_log,
          predictions |-> all_predictions_log, bets |-> bets_placed_log,
          pending |-> pending_results, orders |-> orders, effects |-> <<>>]
    ELSE LET races1 == Append(all_races_log, RaceLog(rd))
             runners1 == all_runners_log \o RunnerLogs(rd)
             eff1 == <<"all_races_log.append", "all_runners_log.append", "db.log_race">>
         IN IF ~sink.log_race
            THEN [result |-> "TypeError", raised |-> TRUE,
                  races |-> races1, runners |-> runners1,
                  predictions |-> all_predictions_log, bets |-> bets_placed_log,
                  pending |-> pending_results, orders |-> orders, effects |-> eff1]
            ELSE LET opportunities == identify_betting_opportunities(m, preds)
                     predictions1 == all_predictions_log \o PredictionLogs(m, preds)
                     placed == PlaceBets(opportunities, dry_run, api, sink.log_bet)
                     eff2 == eff1 \o <<"identify_betting_opportunities", "db.log_predictions",
                                       "all_predictions_log.append">> \o placed.effects
                 IN IF placed.raised
                    THEN [result |-> "TypeError", raised |-> TRUE,
                          races |-> races1, runners |-> runners1,
                          predictions |-> predictions1,
                          bets |-> bets_placed_log \o placed.bets,
                          pending |-> pending_results,
                          orders |-> orders \o placed.requests, effects |-> eff2]
                    ELSE [result |-> "OK", raised |-> FALSE,
                          races |-> races1, runners |-> runners1,
                          predictions |-> predictions1,
                          bets |-> bets_placed_log \o placed.bets,
                          pending |-> (m :> (rd.race_time + result_check_delay_minutes))
                                      @@ pending_results,
                          orders |-> orders \o placed.requests,
                          effects |-> eff2 \o <<"pending_results.insert">>]

\* the answers a placeOrders request can get: none is asked for in dry-run mode
Answers == IF dry_run THEN {"none"} ELSE ApiAnswers

\* the persistence sink of the repository: DatabaseHelper
DatabaseHelper == [log_race |-> LogRaceCallBinds, log_bet |-> LogBetCallBinds]

\* the effect of one process_race call on the state
DoProcessRace(m, hyd, preds, api, sink) ==
    LET r == process_race(m, hyd, preds, api, sink) IN
    /\ all_races_log' = r.races
    /\ all_runners_log' = r.runners
    /\ all_predictions_log' = r.predictions
    /\ bets_placed_log' = r.bets
    /\ pending_results' = r.pending
    /\ orders' = r.orders

\* how a process_race call ended, kept by the thread that made it
CallRecord(m, hyd, preds, api, sink) ==
    LET r == process_race(m, hyd, preds, api, sink) IN
    [market_id |-> m, hydration |-> hyd, result |-> r.result, raised |-> r.raised,
     effects |-> r.effects]
NoCall == [market_id |-> None, hydration |-> None, result |-> None, raised |-> FALSE,
           effects |-> <<>>]

\* the call of self.system.process_race(market_id) begins
Invoke(m) ==
    /\ invocations' = [invocations EXCEPT ![m] = @ + 1]
    /\ handed_early' = [handed_early EXCEPT ![m] = @ \/ now <= race_time[m]]

\* ---- run_continuous_scheduled.py ------------------------------------------
\* line 83 and line 183: market_id in self.scheduled_races
AlreadyScheduledMut(m) == FALSE
AlreadyScheduled(m) == m \in scheduled_races

\* a timer set for the process time of m has called back: the clock is past
\* that time, by less than a minute when now is still the minute of it
PastProcessTime(m) ==
    \E h \in Handles : /\ timers[h].market_id = m
                       /\ timers[h].st \in {"running", "release", "pop", "done"}

\* lines 89-94
delay_secondsMut(m) == ((race_time[m] + target_minutes_before_race) - now) * 60
delay_seconds(m) ==
    IF now = race_time[m] - target_minutes_before_race /\ PastProcessTime(m)
    THEN -1
    ELSE ((race_time[m] - target_minutes_before_race) - now) * 60

\* line 96
TooCloseMut(m) == FALSE
TooClose(m) == delay_seconds(m) < 0

\* line 100
TooFarMut(m) == FALSE
TooFar(m) == delay_seconds(m) > scan_interval_minutes * 60

\* with self.scheduled_races_lock: self.scheduled_races.discard(market_id)
DiscardMut(m) ==
    /\ scheduled_races' = scheduled_races
    /\ released_count' = released_count
Discard(m) ==
    /\ scheduled_races' = scheduled_races \ {m}
    /\ released_count' = [released_count EXCEPT ![m] = IF m \in scheduled_races THEN @ + 1 ELSE @]

\* the threads that take the two locks: the poll loop and the timer callbacks
LockThreads == {"poll", "timer1", "timer2"}
\* a lock no thread holds
Free == "free"

\* the client after login(), before its first _make_api_request
NoRequest == [pc |-> "idle", session_token |-> "token", retry_on_session_error |-> TRUE,
              request_count |-> 0, calls |-> 0, attempts |-> 0, logins |-> 0,
              answer |-> "none", result |-> Unset]

\* no save_logs call was made yet
NoFlush == [races |-> <<>>, runners |-> <<>>, predictions |-> <<>>, bets |-> <<>>,
            grown |-> FALSE]

Init ==
    /\ now = 0
    /\ running = TRUE
    /\ scan_interval_minutes \in ScanIntervals
    /\ target_minutes_before_race \in LeadTimes
    /\ race_time \in [Ids -> StartTimes]
    /\ race_time["m1"] <= race_time["m2"]     \* the other half is the same up to the names
    /\ prediction_results = <<>>
    /\ identified = None
    /\ scheduled_races_lock = Free
    /\ timers_lock = Free
    /\ lock_pc = [t \in LockThreads |-> IF t = "poll" THEN "l182" ELSE "idle"]
    /\ api_request = NoRequest
    /\ scheduled_races = {}
    /\ active_timers = [m \in Ids |-> 0]
    /\ timers = <<>>
    /\ pc = "main"
    /\ races = <<>>
    /\ next_scan = 0
    /\ all_races_log = <<>>
    /\ all_runners_log = <<>>
    /\ all_predictions_log = <<>>
    /\ bets_placed_log = <<>>
    /\ pending_results = <<>>
    /\ dry_run = TRUE
    /\ orders = <<>>
    /\ rc_pc = "sleep"
    /\ markets_to_check = <<>>
    /\ rc_wake = 0
    /\ rc_now = 0
    /\ checks = [m \in Ids |-> <<>>]
    /\ removals = [m \in Ids |-> 0]
    /\ last_call = NoCall
    /\ invocations = [m \in Ids |-> 0]
    /\ reserved_count = [m \in Ids |-> 0]
    /\ released_count = [m \in Ids |-> 0]
    /\ handed_early = [m \in Ids |-> FALSE]
    /\ first_poll = -1
    /\ sync_call = NoCall
    /\ flushed = NoFlush
    /\ saves_after_signal = 0

\* __main__, lines 359-362: the test that makes the process exit
RejectsMut(interval, target) == FALSE
Rejects(interval, target) == target >= interval

\* __main__, lines 359-369, and run, lines 220-222: the configuration is
\* validated, then the runner is constructed and run
Main ==
    /\ pc = "main"
    /\ pc' = IF Rejects(scan_interval_minutes, target_minutes_before_race)
             THEN "rejected"
             ELSE "sleep"
    /\ UNCHANGED <<flushVars, now, running, configVars, scheduled_races, active_timers,
                   timers, races, next_scan, sysVars, invocations, reserved_count,
                   released_count, handed_early, first_poll, sync_call>>

\* _signal_handler, installed by __init__
Signal ==
    /\ running
    /\ pc \notin {"main", "rejected", "stopped"}
    /\ running' = FALSE
    /\ UNCHANGED <<flushVars, now, configVars, scheduled_races, active_timers, timers, pc, races,
                   next_scan, sysVars, invocations, reserved_count, released_count,
                   handed_early, first_poll, sync_call>>

\* run, lines 225-234, and _scan_and_schedule_races, lines 161-171: the loop
\* condition holds, the sleep is over, the poll returns its list
ScanBegin ==
    /\ pc = "sleep"
    /\ running
    /\ now >= next_scan
    /\ \E order \in Orders(UpcomingRaces(now, scan_interval_minutes)) :
          races' = order
    /\ next_scan' = now + scan_interval_minutes
    /\ first_poll' = IF first_poll < 0 THEN now ELSE first_poll
    /\ pc' = "scan"
    /\ UNCHANGED <<flushVars, now, running, configVars, scheduled_races, active_timers, timers,
                   sysVars, invocations, reserved_count, released_count, handed_early,
                   sync_call>>

\* _scan_and_schedule_races, lines 177-187, and _schedule_race, lines 79-86
ScanConsider ==
    /\ pc = "scan"
    /\ races # <<>>
    /\ LET m == Head(races) IN
         IF AlreadyScheduled(m)
         THEN /\ races' = Tail(races)
              /\ UNCHANGED <<flushVars, pc, scheduled_races, reserved_count>>
         ELSE /\ scheduled_races' = scheduled_races \cup {m}
              /\ reserved_count' = [reserved_count EXCEPT ![m] = @ + 1]
              /\ pc' = "decide"
              /\ UNCHANGED races
    /\ UNCHANGED <<flushVars, now, running, configVars, active_timers, timers, next_scan, sysVars,
                   invocations, released_count, handed_early, first_poll, sync_call>>

\* _schedule_race, lines 96-99: delay_seconds < 0, process_race is called
SyncBegin ==
    /\ pc = "decide"
    /\ TooClose(Head(races))
    /\ Invoke(Head(races))
    /\ pc' = "sync_run"
    /\ UNCHANGED <<flushVars, now, running, configVars, scheduled_races, active_timers, timers,
                   races, next_scan, sysVars, reserved_count, released_count,
                   first_poll, sync_call>>

\* _schedule_race, lines 100-104
Defer ==
    /\ pc = "decide"
    /\ ~TooClose(Head(races))
    /\ TooFar(Head(races))
    /\ Discard(Head(races))
    /\ races' = Tail(races)
    /\ pc' = "scan"
    /\ UNCHANGED <<flushVars, now, running, configVars, active_timers, timers, next_scan, sysVars,
                   invocations, reserved_count, handed_early, first_poll, sync_call>>

\* the threading.Timer of lines 109-113, fires delay_seconds after its start
NewTimerMut(m, state) ==
    [market_id |-> m, delay |-> delay_seconds(m), fire_at |-> now, st |-> state, call |-> NoCall]
NewTimer(m, state) ==
    [market_id |-> m, delay |-> delay_seconds(m), fire_at |-> now + (delay_seconds(m) \div 60),
     st |-> state, call |-> NoCall]

ArmBranch ==
    /\ pc = "decide"
    /\ ~TooClose(Head(races))
    /\ ~TooFar(Head(races))

\* _schedule_race, lines 105-118
ArmTimer ==
    /\ ArmBranch
    /\ timers' = Append(timers, NewTimer(Head(races), "armed"))
    /\ active_timers' = [active_timers EXCEPT ![Head(races)] = Len(timers) + 1]
    /\ races' = Tail(races)
    /\ pc' = "scan"
    /\ UNCHANGED <<flushVars, now, running, configVars, scheduled_races, next_scan, sysVars,
                   invocations, reserved_count, released_count, handed_early,
                   first_poll, sync_call>>

\* _schedule_race, lines 109-118, when timer.start() raises RuntimeError (the
\* thread cannot be started): the handle is recorded, the exception leaves
\* _schedule_race and is caught at line 199, which ends the scan
ArmTimerFails ==
    /\ ArmBranch
    /\ timers' = Append(timers, NewTimer(Head(races), "unstarted"))
    /\ active_timers' = [active_timers EXCEPT ![Head(races)] = Len(timers) + 1]
    /\ races' = <<>>
    /\ pc' = "save"
    /\ UNCHANGED <<flushVars, now, running, configVars, scheduled_races, next_scan, sysVars,
                   invocations, reserved_count, released_count, handed_early,
                   first_poll, sync_call>>

\* _process_scheduled_race, line 137, called from _schedule_race
SyncProcess ==
    /\ pc = "sync_run"
    /\ \E hyd \in {"ok", "none"}, preds \in PredictionInputs, api \in Answers :
          /\ DoProcessRace(Head(races), hyd, preds, api, DatabaseHelper)
          /\ sync_call' = CallRecord(Head(races), hyd, preds, api, DatabaseHelper)
    /\ pc' = "sync_release"
    /\ UNCHANGED <<flushVars, now, running, configVars, scheduled_races, active_timers, timers,
                   races, next_scan, invocations, reserved_count, released_count,
                   handed_early, first_poll, checkerVars, dry_run, last_call>>

\* _process_scheduled_race, lines 147-148
SyncRelease ==
    /\ pc = "sync_release"
    /\ Discard(Head(races))
    /\ pc' = "sync_pop"
    /\ UNCHANGED <<flushVars, now, running, configVars, active_timers, timers, races, next_scan,
                   sysVars, invocations, reserved_count, handed_early, first_poll,
                   sync_call>>

\* _process_scheduled_race, lines 149-150, and the return to the scan loop
SyncPop ==
    /\ pc = "sync_pop"
    /\ active_timers' = [active_timers EXCEPT ![Head(races)] = 0]
    /\ races' = Tail(races)
    /\ sync_call' = NoCall
    /\ pc' = "scan"
    /\ UNCHANGED <<flushVars, now, running, configVars, scheduled_races, timers, next_scan,
                   sysVars, invocations, reserved_count, released_count, handed_early,
                   first_poll>>

\* _scan_and_schedule_races, lines 167-169 and 190-197: the list is done
ScanEnd ==
    /\ pc = "scan"
    /\ races = <<>>
    /\ pc' = "save"
    /\ UNCHANGED <<flushVars, now, running, configVars, scheduled_races, active_timers, timers,
                   races, next_scan, sysVars, invocations, reserved_count,
                   released_count, handed_early, first_poll, sync_call>>

\* what save_logs writes: the four logs, whole (grown: the races file has
\* more records than the races file of the flush before, which had some)
Flush ==
    [races |-> all_races_log, runners |-> all_runners_log,
     predictions |-> all_predictions_log, bets |-> bets_placed_log,
     grown |-> flushed.races # <<>> /\ Len(all_races_log) > Len(flushed.races)]

\* save_logs writes the four logs to new files and changes none of them
save_logsMut ==
    /\ flushed' = Flush
    /\ saves_after_signal' = IF running THEN saves_after_signal ELSE saves_after_signal + 1
    /\ all_races_log' = <<>>
    /\ all_runners_log' = <<>>
    /\ all_predictions_log' = <<>>
    /\ bets_placed_log' = <<>>
save_logs ==
    /\ flushed' = Flush
    /\ saves_after_signal' = IF running THEN saves_after_signal ELSE saves_after_signal + 1
    /\ UNCHANGED <<all_races_log, all_runners_log, all_predictions_log, bets_placed_log>>

\* run, lines 236-281: save_logs, then the sleep until next_scan
SaveLogs ==
    /\ pc = "save"
    /\ save_logs
    /\ pc' = "sleep"
    /\ UNCHANGED <<now, running, configVars, scheduled_races, active_timers, timers,
                   races, next_scan, pending_results, orders,
                   checkerVars, dry_run, last_call, invocations, reserved_count,
                   released_count, handed_early, first_poll, sync_call>>

\* timers_lock is held by a timer callback across steps of the poll loop: never,
\* a callback takes it for the pop of line 150 alone, after process_race has
\* returned, and _shutdown joins no timer thread
TimersLockHeldMut == \E h \in Handles : timers[h].st \in {"running", "release", "pop"}
TimersLockHeld == FALSE

\* threading.Timer.cancel: a timer that still waits will not call its function,
\* on any other timer the call has no effect
cancelMut(timer) == timer
cancel(timer) ==
    IF timer.st = "armed" THEN [timer EXCEPT !.st = "cancelled"] ELSE timer

\* run, line 225 false, and _shutdown, lines 298-313: the timers of
\* active_timers are cancelled, the logs are saved
Shutdown ==
    /\ pc = "sleep"
    /\ ~running
    /\ ~TimersLockHeld
    /\ save_logs
    /\ timers' = [h \in Handles |->
                    IF \E m \in Ids : active_timers[m] = h
                    THEN cancel(timers[h])
                    ELSE timers[h]]
    /\ active_timers' = [m \in Ids |-> 0]
    /\ pc' = "stopped"
    /\ UNCHANGED <<now, running, configVars, scheduled_races, races, next_scan, pending_results, orders,
                   checkerVars, dry_run, last_call,
                   invocations, reserved_count, released_count, handed_early,
                   first_poll, sync_call>>

\* the timer thread wakes after its delay and calls _process_scheduled_race,
\* which calls process_race at line 137
TimerFire(h) ==
    /\ timers[h].st = "armed"
    /\ now >= timers[h].fire_at
    /\ timers' = [timers EXCEPT ![h].st = "running"]
    /\ Invoke(timers[h].market_id)
    /\ UNCHANGED <<flushVars, now, running, configVars, scheduled_races, active_timers, pc, races,
                   next_scan, sysVars, reserved_count, released_count, first_poll,
                   sync_call>>

\* process_race returns or raises inside the try of lines 128-144
TimerProcess(h) ==
    /\ timers[h].st = "running"
    /\ \E hyd \in {"ok", "none"}, preds \in PredictionInputs, api \in Answers :
          /\ DoProcessRace(timers[h].market_id, hyd, preds, api, DatabaseHelper)
          /\ timers' = [timers EXCEPT ![h].st = "release",
                                      ![h].call = CallRecord(timers[h].market_id, hyd, preds, api, DatabaseHelper)]
    /\ UNCHANGED <<flushVars, now, running, configVars, scheduled_races, active_timers, pc, races,
                   next_scan, invocations, reserved_count, released_count,
                   handed_early, first_poll, sync_call, checkerVars, dry_run, last_call>>

\* _process_scheduled_race, lines 147-148, on the timer thread
TimerRelease(h) ==
    /\ timers[h].st = "release"
    /\ Discard(timers[h].market_id)
    /\ timers' = [timers EXCEPT ![h].st = "pop"]
    /\ UNCHANGED <<flushVars, now, running, configVars, active_timers, pc, races, next_scan,
                   sysVars, invocations, reserved_count, handed_early, first_poll,
                   sync_call>>

\* _process_scheduled_race, lines 149-150, on the timer thread
TimerPop(h) ==
    /\ timers[h].st = "pop"
    /\ active_timers' = [active_timers EXCEPT ![timers[h].market_id] = 0]
    /\ timers' = [timers EXCEPT ![h].st = "done"]
    /\ UNCHANGED <<flushVars, now, running, configVars, scheduled_races, pc, races, next_scan,
                   sysVars, invocations, reserved_count, released_count, handed_early,
                   first_poll, sync_call>>

\* a step of the program that is not the passing of time
Steps ==
    \/ Main
    \/ Signal
    \/ ScanBegin
    \/ ScanConsider
    \/ SyncBegin
    \/ Defer
    \/ ArmTimer
    \/ ArmTimerFails
    \/ SyncProcess
    \/ SyncRelease
    \/ SyncPop
    \/ ScanEnd
    \/ SaveLogs
    \/ Shutdown
    \/ \E h \in Handles : TimerFire(h)
    \/ \E h \in Handles : TimerProcess(h)
    \/ \E h \in Handles : TimerRelease(h)
    \/ \E h \in Handles : TimerPop(h)

\* some thread is at a step that takes no time: the poll loop between two
\* slow calls or at the end of its sleep, a timer that is due, a callback in
\* its finally block
Busy ==
    \/ pc \in {"main", "scan", "decide", "sync_release", "sync_pop", "save"}
    \/ pc = "sleep" /\ (now >= next_scan \/ ~running)
    \/ \E h \in Handles : \/ timers[h].st \in {"release", "pop"}
                          \/ timers[h].st = "armed" /\ now >= timers[h].fire_at

\* one minute passes
Tick ==
    /\ ~Busy
    /\ now < MaxTime
    /\ now' = now + 1
    /\ UNCHANGED <<flushVars, running, configVars, scheduled_races, active_timers, timers, pc,
                   races, next_scan, sysVars, invocations, reserved_count,
                   released_count, handed_early, first_poll, sync_call>>

Next == Steps \/ Tick

Spec == Init /\ [][Next]_vars

\* the poll loop thread keeps running: each of its calls returns (the requests
\* of the exchange client have timeouts).  Nothing is assumed of the timer
\* callbacks, which may stay inside process_race for ever
FairSpec ==
    /\ Spec
    /\ WF_vars(ScanConsider)
    /\ WF_vars(SyncBegin)
    /\ WF_vars(Defer)
    /\ WF_vars(ArmTimer \/ ArmTimerFails)
    /\ WF_vars(SyncProcess)
    /\ WF_vars(SyncRelease)
    /\ WF_vars(SyncPop)
    /\ WF_vars(ScanEnd)
    /\ WF_vars(SaveLogs)
    /\ WF_vars(Shutdown)

\* ---- the result checker of gb_betting_system.py -----------------------------
\* what listMarketBook answers for a market: no book, or a book in which
\* selection winner has status WINNER (0: no runner has)
Outcomes ==
    {[book |-> FALSE, winner |-> 0]}
        \cup {[book |-> TRUE, winner |-> w] : w \in {0} \cup {Selections[i] : i \in DOMAIN Selections}}

\* _check_race_result, lines 587-597: every race record of the market gets the
\* winner; the log line of line 596 formats the winner's ltp and raises
\* TypeError when it is None
RECURSIVE UpdateRaces(_, _, _)
UpdateRaces(log, m, w) ==
    IF log = <<>> THEN [log |-> <<>>, raised |-> FALSE]
    ELSE LET race == Head(log)
             hit == {i \in DOMAIN race.runners : race.runners[i].selection_id = w}
             odds == IF hit = {} THEN race.winner_odds
                     ELSE race.runners[CHOOSE i \in hit : \A j \in hit : i <= j].ltp
             race1 == [race EXCEPT !.winner_selection_id = <<w>>, !.winner_odds = odds]
         IN IF race.market_id # m
            THEN [log |-> <<race>> \o UpdateRaces(Tail(log), m, w).log,
                  raised |-> UpdateRaces(Tail(log), m, w).raised]
            ELSE IF hit # {} /\ odds = Unset
                 THEN [log |-> <<race1>> \o Tail(log), raised |-> TRUE]
                 ELSE [log |-> <<race1>> \o UpdateRaces(Tail(log), m, w).log,
                       raised |-> UpdateRaces(Tail(log), m, w).raised]

\* lines 602-612: the outcome fields of one bet record
SettleBet(bet, w) ==
    IF bet.selection_id = w
    THEN [bet EXCEPT !.won = <<TRUE>>,
                     !.returns = <<bet.stake * bet.runner_odds>>,
                     !.profit = <<bet.stake * bet.runner_odds - bet.stake * 10>>]
    ELSE [bet EXCEPT !.won = <<FALSE>>,
                     !.returns = <<0>>,
                     !.profit = <<0 - bet.stake * 10>>]

\* lines 600-613: the bet records in the order of the log; bet['market_id']
\* raises KeyError on a record that has no such key
RECURSIVE UpdateBets(_, _, _)
UpdateBets(log, m, w) ==
    IF log = <<>> THEN [log |-> <<>>, raised |-> FALSE]
    ELSE LET bet == Head(log) IN
         IF bet.market_id = Absent
         THEN [log |-> log, raised |-> TRUE]
         ELSE [log |-> <<IF bet.market_id = m THEN SettleBet(bet, w) ELSE bet>>
                            \o UpdateBets(Tail(log), m, w).log,
               raised |-> UpdateBets(Tail(log), m, w).raised]

\* the positions of the bet records whose outcome fields the loop of lines
\* 600-613 writes: the records of the market it reaches
Settled(log, m) ==
    { k \in DOMAIN log : /\ log[k].market_id = m
                         /\ \A j \in 1..k : log[j].market_id # Absent }

\* _check_race_result(market_id): the logs after the call and the bet records
\* it wrote; every exception is caught at line 615
check_race_resultMut(m, outcome) ==
    [races |-> UpdateRaces(all_races_log, m, outcome.winner).log,
     bets |-> UpdateBets(bets_placed_log, m, outcome.winner).log,
     settled |-> Settled(bets_placed_log, m),
     raised |-> FALSE]
check_race_result(m, outcome) ==
    IF ~outcome.book
    THEN [races |-> all_races_log, bets |-> bets_placed_log, settled |-> {},
          raised |-> FALSE]
    ELSE LET r == UpdateRaces(all_races_log, m, outcome.winner) IN
         IF r.raised
         THEN [races |-> r.log, bets |-> bets_placed_log, settled |-> {},
               raised |-> TRUE]
         ELSE [races |-> r.log,
               bets |-> UpdateBets(bets_placed_log, m, outcome.winner).log,
               settled |-> Settled(bets_placed_log, m),
               raised |-> UpdateBets(bets_placed_log, m, outcome.winner).raised]

\* lines 558 and 562: time.sleep(60), in minutes
CheckerSleepMut == result_check_delay_minutes + MaxTime + 1
CheckerSleep == 1

\* the entries line 551 selects
DueMut(t) == DOMAIN pending_results
Due(t) == { m \in DOMAIN pending_results : pending_results[m] <= t }

\* del self.pending_results[market_id]
RemoveMut(pending, m) == pending
Remove(pending, m) == [k \in (DOMAIN pending) \ {m} |-> pending[k]]

\* _result_checker_loop, lines 544-550: the sleep (line 558, or line 562 after
\* an exception) is over, now is taken and the iteration over
\* pending_results.items() begins
SweepBegin ==
    /\ rc_pc \in {"sleep", "sleep_except"}
    /\ now >= rc_wake
    /\ rc_now' = now
    /\ rc_pc' = "snapshot"
    /\ UNCHANGED <<now, configVars, runnerVars, logVars, dry_run, last_call, rc_wake,
                   markets_to_check, checks, removals>>

\* lines 549-552: the iteration ends, the due entries are listed
SweepList ==
    /\ rc_pc = "snapshot"
    /\ \E order \in Orders(Due(rc_now)) : markets_to_check' = order
    /\ rc_pc' = "check"
    /\ UNCHANGED <<now, configVars, runnerVars, logVars, dry_run, last_call, rc_wake,
                   rc_now, checks, removals>>

\* lines 549-552 and 560-562: a key was added to pending_results while the
\* iteration was under way, the iterator raises RuntimeError (dictionary
\* changed size during iteration), the pass ends without a check
SweepListFails ==
    /\ rc_pc = "snapshot_broken"
    /\ rc_pc' = "sleep_except"
    /\ rc_wake' = now + CheckerSleep
    /\ UNCHANGED <<now, configVars, runnerVars, logVars, dry_run, last_call,
                   markets_to_check, rc_now, checks, removals>>

\* line 555: _check_race_result(market_id), the exchange answering one of outs
SweepCheckWith(outs) ==
    /\ rc_pc = "check"
    /\ markets_to_check # <<>>
    /\ \E outcome \in outs :
          LET r == check_race_result(Head(markets_to_check), outcome) IN
          /\ all_races_log' = r.races
          /\ bets_placed_log' = r.bets
          /\ checks' = [checks EXCEPT ![Head(markets_to_check)] =
                            Append(@, [outcome |-> outcome, raised |-> r.raised,
                                       settled |-> r.settled, pass |-> rc_now])]
    /\ rc_pc' = "delete"
    /\ UNCHANGED <<now, configVars, runnerVars, all_runners_log, all_predictions_log,
                   pending_results, orders, dry_run, last_call, markets_to_check,
                   rc_wake, rc_now, removals>>

SweepCheck == SweepCheckWith(Outcomes)

\* line 556: del self.pending_results[market_id]; a missing key raises
\* KeyError, caught at line 560, which ends the pass
SweepDelete ==
    /\ rc_pc = "delete"
    /\ IF Head(markets_to_check) \in DOMAIN pending_results
       THEN /\ pending_results' = Remove(pending_results, Head(markets_to_check))
            /\ removals' = [removals EXCEPT ![Head(markets_to_check)] = @ + 1]
            /\ markets_to_check' = Tail(markets_to_check)
            /\ rc_pc' = "check"
            /\ UNCHANGED rc_wake
       ELSE /\ markets_to_check' = <<>>
            /\ rc_pc' = "sleep_except"
            /\ rc_wake' = now + CheckerSleep
            /\ UNCHANGED <<pending_results, removals>>
    /\ UNCHANGED <<now, configVars, runnerVars, all_races_log, all_runners_log,
                   all_predictions_log, bets_placed_log, orders, dry_run, last_call,
                   rc_now, checks>>

\* line 558: the list is done, time.sleep(60)
SweepEnd ==
    /\ rc_pc = "check"
    /\ markets_to_check = <<>>
    /\ rc_pc' = "sleep"
    /\ rc_wake' = now + CheckerSleep
    /\ UNCHANGED <<now, configVars, runnerVars, logVars, dry_run, last_call,
                   markets_to_check, rc_now, checks, removals>>

\* a persistence sink that accepts the keyword calls of process_race
AcceptingSink == [log_race |-> TRUE, log_bet |-> TRUE]

\* line 379 added a key to pending_results (an assignment to a key that is
\* there leaves the size of the dict as it is)
SizeChanged == DOMAIN pending_results' # DOMAIN pending_results

\* get_upcoming_greyhound_races lists the markets that have not started
UpcomingMut(m) == TRUE
Upcoming(m) == now <= race_time[m]

\* gb_betting_system.py, lines 708-711: process_race called for a market that
\* the exchange listed as upcoming
CallProcessRace(m) ==
    /\ Upcoming(m)
    /\ Len(all_races_log) < MaxCalls
    /\ \E hyd \in {"ok", "none"}, preds \in PredictionInputs, api \in Answers :
          /\ DoProcessRace(m, hyd, preds, api, AcceptingSink)
          /\ last_call' = CallRecord(m, hyd, preds, api, AcceptingSink)
    /\ rc_pc' = IF rc_pc = "snapshot" /\ SizeChanged THEN "snapshot_broken" ELSE rc_pc
    /\ UNCHANGED <<now, configVars, runnerVars, markets_to_check, rc_wake, rc_now,
                   checks, removals, dry_run>>

\* the result checker is at a step that takes no time
CheckerBusy ==
    \/ rc_pc \in {"sleep", "sleep_except"} /\ now >= rc_wake
    \/ rc_pc \in {"snapshot", "snapshot_broken"}
    \/ rc_pc = "check" /\ markets_to_check = <<>>
    \/ rc_pc = "delete"

\* one minute passes while the result checker sleeps or waits for the exchange
TrackerTick ==
    /\ ~CheckerBusy
    /\ rc_pc = "check" => now < rc_now + MaxPass
    /\ now < result_check_delay_minutes + MaxTime
    /\ now' = now + 1
    /\ UNCHANGED <<configVars, runnerVars, sysVars>>

TrackerInit ==
    /\ now = 0
    /\ running = TRUE
    /\ scan_interval_minutes \in ScanIntervals
    /\ target_minutes_before_race = 0
    /\ race_time \in [Ids -> {0, MaxStart}] \cup {[m \in Ids |-> IF m = "m1" THEN 0 ELSE LateStart]}
    /\ race_time["m1"] <= race_time["m2"]
    /\ prediction_results = <<>>
    /\ identified = None
    /\ scheduled_races_lock = Free
    /\ timers_lock = Free
    /\ lock_pc = [t \in LockThreads |-> IF t = "poll" THEN "l182" ELSE "idle"]
    /\ api_request = NoRequest
    /\ scheduled_races = {}
    /\ active_timers = [m \in Ids |-> 0]
    /\ timers = <<>>
    /\ pc = "sleep"
    /\ races = <<>>
    /\ next_scan = 0
    /\ all_races_log = <<>>
    /\ all_runners_log = <<>>
    /\ all_predictions_log = <<>>
    /\ bets_placed_log = <<>>
    /\ pending_results = <<>>
    /\ dry_run \in BOOLEAN
    /\ orders = <<>>
    /\ rc_pc = "sleep"
    /\ markets_to_check = <<>>
    /\ rc_wake = 0
    /\ rc_now = 0
    /\ checks = [m \in Ids |-> <<>>]
    /\ removals = [m \in Ids |-> 0]
    /\ last_call = NoCall
    /\ invocations = [m \in Ids |-> 0]
    /\ reserved_count = [m \in Ids |-> 0]
    /\ released_count = [m \in Ids |-> 0]
    /\ handed_early = [m \in Ids |-> FALSE]
    /\ first_poll = -1
    /\ sync_call = NoCall
    /\ flushed = NoFlush
    /\ saves_after_signal = 0

TrackerNext ==
    \/ \E m \in Ids : CallProcessRace(m)
    \/ SweepBegin
    \/ SweepList
    \/ SweepListFails
    \/ SweepCheck
    \/ SweepDelete
    \/ SweepEnd
    \/ TrackerTick

\* the betting system with its result checker, called with upcoming markets,
\* on a persistence sink that accepts the calls
TrackerSpec == TrackerInit /\ [][TrackerNext]_vars

\* the result checker thread and the clock keep running
TrackerFairSpec ==
    /\ TrackerSpec
    /\ WF_vars(SweepBegin)
    /\ WF_vars(SweepList)
    /\ WF_vars(SweepListFails)
    /\ WF_vars(SweepCheck)
    /\ WF_vars(SweepDelete)
    /\ WF_vars(SweepEnd)
    /\ WF_vars(TrackerTick)

\* ---- the runner with its betting system and result checker -----------------
\* the predictions and the answers of the exchange of this specification: a
\* race with a bet, a market book with a winner or none
SystemPredictionInputs ==
    { <<[selection_id |-> 1, ltp |-> 75, p |-> 40], [selection_id |-> 2, ltp |-> 150, p |-> 30]>> }
SystemOutcomes == {[book |-> FALSE, winner |-> 0], [book |-> TRUE, winner |-> 1]}

\* _process_scheduled_race, line 137, on the poll thread, when the persistence
\* sink accepts the calls of process_race
SyncProcessAccepted ==
    /\ pc = "sync_run"
    /\ \E hyd \in {"ok", "none"}, preds \in SystemPredictionInputs, api \in Answers :
          /\ DoProcessRace(Head(races), hyd, preds, api, AcceptingSink)
          /\ sync_call' = CallRecord(Head(races), hyd, preds, api, AcceptingSink)
    /\ pc' = "sync_release"
    /\ rc_pc' = IF rc_pc = "snapshot" /\ SizeChanged THEN "snapshot_broken" ELSE rc_pc
    /\ UNCHANGED <<flushVars, now, running, configVars, scheduled_races, active_timers,
                   timers, races, next_scan, invocations, reserved_count, released_count,
                   handed_early, first_poll, markets_to_check, rc_wake, rc_now, checks,
                   removals, dry_run, last_call>>

\* the same call on a timer thread
TimerProcessAccepted(h) ==
    /\ timers[h].st = "running"
    /\ \E hyd \in {"ok", "none"}, preds \in SystemPredictionInputs, api \in Answers :
          /\ DoProcessRace(timers[h].market_id, hyd, preds, api, AcceptingSink)
          /\ timers' = [timers EXCEPT ![h].st = "release",
                                      ![h].call = CallRecord(timers[h].market_id, hyd, preds,
                                                             api, AcceptingSink)]
    /\ rc_pc' = IF rc_pc = "snapshot" /\ SizeChanged THEN "snapshot_broken" ELSE rc_pc
    /\ UNCHANGED <<flushVars, now, running, configVars, scheduled_races, active_timers,
                   pc, races, next_scan, invocations, reserved_count, released_count,
                   handed_early, first_poll, sync_call, markets_to_check, rc_wake, rc_now,
                   checks, removals, dry_run, last_call>>

\* the result checker thread runs from the construction of the betting system
\* (run, line 222)
CheckerBegin ==
    /\ pc \notin {"main", "rejected"}
    /\ SweepBegin

\* one minute passes: every thread sleeps, waits for its timer or for the
\* exchange; a process_race call that is still running when the last race of
\* the model has started returns before the clock goes on
SystemTick ==
    /\ ~Busy
    /\ ~CheckerBusy
    /\ rc_pc = "check" => now < rc_now + MaxPass
    /\ now >= MaxTime => /\ pc # "sync_run"
                         /\ \A h \in Handles : timers[h].st # "running"
    /\ now < result_check_delay_minutes + MaxTime
    /\ now' = now + 1
    /\ UNCHANGED <<running, configVars, scheduled_races, active_timers, timers, pc,
                   races, next_scan, sysVars, invocations, reserved_count,
                   released_count, handed_early, first_poll, sync_call, flushVars>>

SystemLeadTimes == {-1, 2}

\* start times that make both a timer and a deferral happen
SystemStartTimes == {0, 3}

SystemInit ==
    /\ Init
    /\ target_minutes_before_race \in SystemLeadTimes
    /\ race_time \in [Ids -> SystemStartTimes]

SystemNext ==
    \/ Main
    \/ ScanBegin
    \/ ScanConsider
    \/ SyncBegin
    \/ Defer
    \/ ArmTimer
    \/ ArmTimerFails
    \/ SyncProcessAccepted
    \/ SyncRelease
    \/ SyncPop
    \/ ScanEnd
    \/ SaveLogs
    \/ \E h \in Handles : TimerFire(h)
    \/ \E h \in Handles : TimerProcessAccepted(h)
    \/ \E h \in Handles : TimerRelease(h)
    \/ \E h \in Handles : TimerPop(h)
    \/ CheckerBegin
    \/ SweepList
    \/ SweepListFails
    \/ SweepCheckWith(SystemOutcomes)
    \/ SweepDelete
    \/ SweepEnd
    \/ SystemTick

\* the runner and the result checker of its betting system, as long as no
\* signal arrives
SystemSpec == SystemInit /\ [][SystemNext]_vars

\* ---- identify_betting_opportunities on its own --------------------------------
\* odds (tenths) and calibrated probabilities (percent) around every threshold
MaxRunners == 2
PredictorOdds == {40, 50, 75, 100, 150, 200, 210}
PredictorProbabilities == {20, 25, 30, 35, 40}

\* the predictions of a race of 1..MaxRunners runners
PredictorInputs ==
    UNION { { [i \in 1..n |-> [selection_id |-> i, ltp |-> f[i].ltp, p |-> f[i].p]]
                : f \in [1..n -> [ltp : PredictorOdds, p : PredictorProbabilities]] }
              : n \in 1..MaxRunners }

PredictorInit ==
    /\ Init
    /\ target_minutes_before_race = 0
    /\ race_time = [m \in Ids |-> 0]

\* predict_race returns the predictions of a race
Predict ==
    /\ prediction_results = <<>>
    /\ identified = None
    /\ prediction_results' \in PredictorInputs
    /\ UNCHANGED <<now, running, scan_interval_minutes, target_minutes_before_race,
                   race_time, identified, scheduled_races, active_timers, timers, pc,
                   races, next_scan, sysVars, invocations, reserved_count,
                   released_count, handed_early, first_poll, sync_call, flushVars,
                   lockVars, api_request>>

\* identify_betting_opportunities, lines 102-160
Identify ==
    /\ prediction_results # <<>>
    /\ identified = None
    /\ identified' = identify_betting_opportunities("m1", prediction_results)
    /\ UNCHANGED <<now, running, scan_interval_minutes, target_minutes_before_race,
                   race_time, prediction_results, scheduled_races, active_timers, timers,
                   pc, races, next_scan, sysVars, invocations, reserved_count,
                   released_count, handed_early, first_poll, sync_call, flushVars,
                   lockVars, api_request>>

PredictorNext == Predict \/ Identify

PredictorSpec == PredictorInit /\ [][PredictorNext]_vars

\* ---- the two locks of run_continuous_scheduled.py ------------------------------
\* In the specifications above a with block is one step.  Here every entry
\* into and exit from a with block is a step of its own; a position is the
\* line of the next lock operation of the thread.
\* the lock operation at a position: which lock is taken or released, and the
\* positions the thread can be at next
LockProgram(pos) ==
    CASE pos = "l182" -> [op |-> "acquire", lock |-> "scheduled_races_lock", next |-> {"l183"}]
      [] pos = "l183" -> [op |-> "release", lock |-> "scheduled_races_lock",
                          next |-> {"l182", "l82", "l300"}]
      [] pos = "l82"  -> [op |-> "acquire", lock |-> "scheduled_races_lock", next |-> {"l86"}]
      [] pos = "l86"  -> [op |-> "release", lock |-> "scheduled_races_lock",
                          next |-> {"l182", "l300", "l147", "l103", "l115"}]
      [] pos = "l103" -> [op |-> "acquire", lock |-> "scheduled_races_lock", next |-> {"l104"}]
      [] pos = "l104" -> [op |-> "release", lock |-> "scheduled_races_lock",
                          next |-> {"l182", "l300"}]
      [] pos = "l115" -> [op |-> "acquire", lock |-> "timers_lock", next |-> {"l116"}]
      [] pos = "l116" -> [op |-> "release", lock |-> "timers_lock", next |-> {"l118"}]
      [] pos = "l118" -> [op |-> "start", lock |-> "none", next |-> {"l182", "l300"}]
      [] pos = "l147" -> [op |-> "acquire", lock |-> "scheduled_races_lock", next |-> {"l148"}]
      [] pos = "l148" -> [op |-> "release", lock |-> "scheduled_races_lock", next |-> {"l149"}]
      [] pos = "l149" -> [op |-> "acquire", lock |-> "timers_lock", next |-> {"l150"}]
      [] pos = "l150" -> [op |-> "release", lock |-> "timers_lock", next |-> {"l182", "l300"}]
      [] pos = "l300" -> [op |-> "acquire", lock |-> "timers_lock", next |-> {"l303"}]
      [] pos = "l303" -> [op |-> "release", lock |-> "timers_lock", next |-> {"stopped"}]
      [] pos = "c147" -> [op |-> "acquire", lock |-> "scheduled_races_lock", next |-> {"c148"}]
      [] pos = "c148" -> [op |-> "release", lock |-> "scheduled_races_lock", next |-> {"c149"}]
      [] pos = "c149" -> [op |-> "acquire", lock |-> "timers_lock", next |-> {"c150"}]
      [] pos = "c150" -> [op |-> "release", lock |-> "timers_lock", next |-> {"idle"}]
      [] OTHER -> [op |-> "none", lock |-> "none", next |-> {}]

\* the finally block of _process_scheduled_race keeps scheduled_races_lock
\* while it takes timers_lock: no, lines 147-148 and 149-150 are two with
\* blocks, one after the other
NestedCleanupMut == TRUE
NestedCleanup == FALSE

\* thread t, at position pos, gives the lock up as it leaves the with block
Released(pos) == ~(NestedCleanup /\ pos \in {"l148", "c148"})

LockInit ==
    /\ Init
    /\ target_minutes_before_race = 0
    /\ race_time = [m \in Ids |-> 0]

lockOther == <<now, running, scan_interval_minutes, target_minutes_before_race, race_time,
               prediction_results, identified, scheduled_races, active_timers, timers, pc,
               races, next_scan, sysVars, invocations, reserved_count, released_count,
               handed_early, first_poll, sync_call, flushVars, api_request>>

\* thread t enters a with block: it waits until the lock is free
Acquire(t) ==
    LET step == LockProgram(lock_pc[t]) IN
    /\ step.op = "acquire"
    /\ IF step.lock = "scheduled_races_lock"
       THEN /\ scheduled_races_lock = Free
            /\ scheduled_races_lock' = t
            /\ UNCHANGED timers_lock
       ELSE /\ timers_lock = Free
            /\ timers_lock' = t
            /\ UNCHANGED scheduled_races_lock
    /\ \E n \in step.next : lock_pc' = [lock_pc EXCEPT ![t] = n]
    /\ UNCHANGED lockOther

\* thread t leaves a with block
Release(t) ==
    LET step == LockProgram(lock_pc[t]) IN
    /\ step.op = "release"
    /\ IF step.lock = "scheduled_races_lock"
       THEN /\ scheduled_races_lock' = IF Released(lock_pc[t]) THEN Free ELSE t
            /\ UNCHANGED timers_lock
       ELSE /\ timers_lock' = Free
            /\ scheduled_races_lock' = IF scheduled_races_lock = t THEN Free
                                        ELSE scheduled_races_lock
    /\ \E n \in step.next : lock_pc' = [lock_pc EXCEPT ![t] = n]
    /\ UNCHANGED lockOther

\* line 118: timer.start(); the callback of the timer is a thread of its own,
\* which reaches its finally block when process_race has ended
StartTimer(t) ==
    LET step == LockProgram(lock_pc[t]) IN
    /\ step.op = "start"
    /\ \E n \in step.next :
          \/ \E c \in LockThreads :
                /\ lock_pc[c] = "idle"
                /\ lock_pc' = [lock_pc EXCEPT ![t] = n, ![c] = "c147"]
          \/ /\ \A c \in LockThreads : lock_pc[c] # "idle"
             /\ lock_pc' = [lock_pc EXCEPT ![t] = n]
    /\ UNCHANGED <<scheduled_races_lock, timers_lock>>
    /\ UNCHANGED lockOther

LockNext == \E t \in LockThreads : Acquire(t) \/ Release(t) \/ StartTimer(t)

LockSpec == LockInit /\ [][LockNext]_vars

\* ---- _make_api_request of betfair_client.py on its own --------------------------
\* api_request.attempts and api_request.logins count the requests.post calls
\* to the endpoint and the login() calls of the outermost _make_api_request
\* call in progress;
\* api_request.answer is what the latest request was answered with.
\* what the exchange answers to a request: a result, an error with the code
\* INVALID_SESSION_INFORMATION, another error, neither, a status other than
\* 200, or nothing (requests.post raises)
RequestAnswers == {"result", "INVALID_SESSION_INFORMATION", "error", "unexpected", "status",
               "exception"}
\* how login() ends: with a session token, with loginStatus SUCCESS but no
\* token, or with False
LoginOutcomes == {"SUCCESS", "SUCCESS_no_token", "False"}

\* line 290: the value the call of _make_api_request after the login passes
\* for retry_on_session_error
RetryAfterLoginMut == TRUE
RetryAfterLogin == FALSE

ApiInit ==
    /\ Init
    /\ target_minutes_before_race = 0
    /\ race_time = [m \in Ids |-> 0]

apiOther == <<now, running, scan_interval_minutes, target_minutes_before_race, race_time,
              prediction_results, identified, scheduled_races, active_timers, timers, pc,
              races, next_scan, sysVars, invocations, reserved_count, released_count,
              handed_early, first_poll, sync_call, flushVars, lockVars>>

\* a caller calls _make_api_request; between two calls the session may have
\* been closed (logout, line 436)
ApiCall ==
    /\ api_request.pc \in {"idle", "returned"}
    /\ api_request.calls < MaxRequests
    /\ \E retry \in BOOLEAN, token \in {api_request.session_token, None} :
          api_request' = [api_request EXCEPT !.pc = "entry", !.session_token = token,
                             !.retry_on_session_error = retry, !.calls = @ + 1,
                             !.attempts = 0, !.logins = 0, !.answer = "none",
                             !.result = Unset]
    /\ UNCHANGED apiOther

\* lines 248-252: without a session token None is returned, otherwise
\* _enforce_rate_limit counts the request
ApiEntry ==
    /\ api_request.pc = "entry"
    /\ api_request' = IF api_request.session_token = None
              THEN [api_request EXCEPT !.pc = "returned", !.result = <<None>>]
              ELSE [api_request EXCEPT !.pc = "post", !.request_count = @ + 1]
    /\ UNCHANGED apiOther

\* lines 269-306: the request is sent and answered
ApiPost ==
    /\ api_request.pc = "post"
    /\ \E answer \in RequestAnswers :
          api_request' = IF answer = "result"
                 THEN [api_request EXCEPT !.pc = "returned", !.attempts = @ + 1, !.answer = answer,
                                  !.result = <<"result">>]
                 ELSE IF answer = "INVALID_SESSION_INFORMATION" /\ api_request.retry_on_session_error
                 THEN [api_request EXCEPT !.pc = "login", !.attempts = @ + 1, !.answer = answer]
                 ELSE [api_request EXCEPT !.pc = "returned", !.attempts = @ + 1, !.answer = answer,
                                  !.result = <<None>>]
    /\ UNCHANGED apiOther

\* lines 288-293 and login, lines 176-222: after a login that returned True
\* the request is made again, by a call whose result is returned as it is
ApiLogin ==
    /\ api_request.pc = "login"
    /\ \E outcome \in LoginOutcomes :
          api_request' = IF outcome = "False"
                 THEN [api_request EXCEPT !.pc = "returned", !.logins = @ + 1, !.result = <<None>>]
                 ELSE [api_request EXCEPT !.pc = "entry", !.logins = @ + 1,
                                  !.session_token = IF outcome = "SUCCESS" THEN "token"
                                                    ELSE None,
                                  !.retry_on_session_error = RetryAfterLogin]
    /\ UNCHANGED apiOther

ApiNext == ApiCall \/ ApiEntry \/ ApiPost \/ ApiLogin

ApiSpec == ApiInit /\ [][ApiNext]_vars

\* ---- properties ------------------------------------------------------------
\* the configuration passes the validation of lines 359-362 with a positive lead
ValidatedConfig ==
    /\ target_minutes_before_race > 0
    /\ target_minutes_before_race < scan_interval_minutes

\* the poll thread is inside the synchronous execution for m
SyncOutstanding(m) == pc \in {"sync_run", "sync_release"} /\ Head(races) = m

\* the timers of m that are armed, or whose callback still holds the reservation
TimersOutstanding(m) ==
    { h \in Handles : timers[h].market_id = m /\ timers[h].st \in {"armed", "running", "release"} }

\* a step in which a process_race call of the poll thread returns or raises
SyncProcessStep == pc = "sync_run" /\ pc' = "sync_release"
\* a step in which the process_race call of timer h returns or raises
TimerProcessStep(h) == timers[h].st = "running" /\ timers'[h].st = "release"

\* C1: process_race is called at most once per market id during the run,
\* also when a later poll lists a market again whose processing has finished
C1_AtMostOncePerEvent ==
    ValidatedConfig => \A m \in Ids : invocations[m] <= 1

\* C2: while a market id is reserved every further consideration of it is a
\* no-op, and per market id at most one armed timer or one synchronous
\* execution is outstanding, never both and never two of either
C2_OneOutstanding ==
    /\ [](\A m \in Ids :
            /\ Cardinality(TimersOutstanding(m)) + (IF SyncOutstanding(m) THEN 1 ELSE 0) <= 1
            /\ (TimersOutstanding(m) # {} \/ SyncOutstanding(m)) => m \in scheduled_races)
    /\ [][(pc = "scan" /\ races # <<>> /\ Head(races) \in scheduled_races /\ races' # races)
            => /\ races' = Tail(races)
               /\ UNCHANGED <<pc, scheduled_races, active_timers, timers, invocations,
                              reserved_count, sysVars>>]_vars

\* a later scan passed over a market whose callback, armed by an earlier scan,
\* is still running
C2_Witness ==
    \E m \in Ids, h \in Handles :
        /\ pc = "scan"
        /\ timers[h].market_id = m /\ timers[h].st = "running"
        /\ timers[h].fire_at < next_scan - scan_interval_minutes
        /\ race_time[m] >= next_scan - scan_interval_minutes
        /\ reserved_count[m] = 1
        /\ \A i \in DOMAIN races : races[i] # m

\* C3: when process_race raised or returned an error, the finally block takes
\* the market id out of scheduled_races (timer path and synchronous path), and
\* a later consideration of that id reserves it again
Failed(c) == c.raised \/ c.result = "ERROR"
C3_ReleasedAfterFailure ==
    [][/\ (pc = "sync_release" /\ pc' = "sync_pop" /\ Failed(sync_call))
            => Head(races) \notin scheduled_races'
       /\ \A h \in Handles :
            (timers[h].st = "release" /\ timers'[h].st = "pop" /\ Failed(timers[h].call))
                => timers[h].market_id \notin scheduled_races'
       /\ (pc = "scan" /\ races # <<>> /\ races' # races /\ pc' = "scan")
            => Head(races) \in scheduled_races
       /\ (pc = "scan" /\ pc' = "decide")
            => Head(races) \in scheduled_races' \ scheduled_races]_vars

\* a market whose processing failed and was cleaned up is reserved a second time
C3_Witness ==
    \E m \in Ids, h \in Handles :
        /\ timers[h].market_id = m /\ timers[h].st = "done" /\ Failed(timers[h].call)
        /\ reserved_count[m] = 2
        /\ m \in scheduled_races

\* C4: every reservation is released exactly once on every path after it
\* (synchronous, defer, timer, failure between reserving and arming), and on
\* the timer path the id stays reserved from arming until the callback's
\* cleanup
PollHolds(m) == pc \in {"decide", "sync_run", "sync_release"} /\ Head(races) = m
C4_ReleasedExactlyOnce ==
    (ValidatedConfig /\ pc # "stopped") =>
        \A m \in Ids :
            /\ released_count[m] <= reserved_count[m]
            /\ (~PollHolds(m) /\ TimersOutstanding(m) = {})
                    => released_count[m] = reserved_count[m]
            /\ TimersOutstanding(m) # {} => m \in scheduled_races

C6_Synchronous ==
    [][/\ (pc = "decide" /\ pc' # "decide" /\ delay_seconds(Head(races)) < 0)
            => /\ pc' = "sync_run"
               /\ invocations'[Head(races)] = invocations[Head(races)] + 1
       /\ pc' \in {"sync_run", "sync_release", "sync_pop"}
            => /\ Len(timers') = Len(timers)
               /\ races' = races
               /\ active_timers'[Head(races)] \in {0, active_timers[Head(races)]}
       /\ (pc = "sync_pop" /\ pc' # "sync_pop")
            => /\ pc' = "scan"
               /\ Len(timers') = Len(timers)
               /\ Head(races) \notin scheduled_races'
               /\ active_timers'[Head(races)] = 0]_vars

\* a synchronous execution has returned: processed once, nothing reserved, no timer
C6_Witness ==
    \E m \in Ids :
        /\ invocations[m] = 1
        /\ timers = <<>>
        /\ pc = "scan"
        /\ m \notin scheduled_races
        /\ released_count[m] = 1

\* C7: with delay > scan window the call arms no timer and does not call
\* process_race, and on return the id is neither in scheduled_races nor in
\* active_timers, so that a later poll considers it again
C7_Deferred ==
    [][(pc = "decide" /\ pc' # "decide"
            /\ delay_seconds(Head(races)) > scan_interval_minutes * 60)
            => /\ pc' = "scan"
               /\ races' = Tail(races)
               /\ timers' = timers
               /\ invocations' = invocations
               /\ Head(races) \notin scheduled_races'
               /\ active_timers'[Head(races)] = 0]_vars

\* a deferred market is reserved again by a later scan
C7_Witness ==
    \E m \in Ids :
        /\ released_count[m] = 1
        /\ reserved_count[m] = 2
        /\ invocations[m] = 0
        /\ \A h \in Handles : timers[h].market_id # m
        /\ pc = "decide" /\ Head(races) = m

\* C8: without shutdown, every market that starts after the first poll is
\* handed to process_race at least once no later than its start, whatever the
\* scan takes
NoStartFailure == \A h \in Handles : timers[h].st # "unstarted"
C8_NoEventDropped ==
    (ValidatedConfig /\ running /\ pc # "stopped" /\ NoStartFailure /\ first_poll >= 0)
        => \A m \in Ids :
              (race_time[m] > first_poll /\ now > race_time[m]) => handed_early[m]

\* C9: when get_race_data returns nothing, process_race returns an error
\* result without raising and leaves the four logs and pending_results as
\* they were
HydrationFailed(c) ==
    c.hydration = "none" => (c.result = "ERROR" /\ ~c.raised /\ UNCHANGED logVars)
C9_HydrationFailure ==
    [][/\ SyncProcessStep => HydrationFailed(sync_call')
       /\ \A h \in Handles : TimerProcessStep(h) => HydrationFailed(timers'[h].call)]_vars

\* a call with failed hydration has returned and nothing was logged
C9_Witness ==
    \E h \in Handles :
        /\ timers[h].call.hydration = "none"
        /\ timers[h].call.result = "ERROR"
        /\ all_races_log = <<>>
        /\ all_runners_log = <<>>

\* C10: when hydration succeeds process_race runs to its end and enrolls the
\* market in pending_results with check_time = start + 45 minutes
Enrolled(c) ==
    c.hydration = "ok" =>
        /\ ~c.raised
        /\ c.market_id \in DOMAIN pending_results'
        /\ pending_results'[c.market_id] = race_time[c.market_id] + result_check_delay_minutes
C10_EnrolledAfterHydration ==
    [][/\ SyncProcessStep => Enrolled(sync_call')
       /\ \A h \in Handles : TimerProcessStep(h) => Enrolled(timers'[h].call)]_vars

\* C11: a failing persistence call never leaves process_race: the call does
\* not raise and runs on to the enrollment in pending_results
SinkCalls == {"db.log_race", "db.log_predictions", "db.log_bet"}
NonFatal(c) ==
    (\E i \in DOMAIN c.effects : c.effects[i] \in SinkCalls)
        => /\ ~c.raised
           /\ c.effects[Len(c.effects)] = "pending_results.insert"
C11_SinkFailureNonFatal ==
    [][/\ SyncProcessStep => NonFatal(sync_call')
       /\ \A h \in Handles : TimerProcessStep(h) => NonFatal(timers'[h].call)]_vars

\* C12: in every process_race call place_bet comes after the race and its
\* runners were appended to the logs and after db.log_race was called, and
\* every bet record of a market has that market's race and runner records
\* in the logs
Before(eff, a, b) ==
    \A i \in DOMAIN eff : eff[i] = b => \E j \in 1..(i - 1) : eff[j] = a
Occurrences(eff, a) == Cardinality({i \in DOMAIN eff : eff[i] = a})
OutcomeRetrieved(m) ==
    /\ Len(checks'[m]) > Len(checks[m])
    /\ checks'[m][Len(checks'[m])].outcome.book
    /\ checks'[m][Len(checks'[m])].outcome.winner # 0

Horizon == result_check_delay_minutes + MaxStart

Keys(log) ==
    [i \in DOMAIN log |->
        <<log[i].market_id,
          IF "selection_id" \in DOMAIN log[i] THEN log[i].selection_id ELSE 0>>]

\* new holds the records of old at the same places, and possibly more after them
Extends(old, new) ==
    /\ Len(old) <= Len(new)
    /\ SubSeq(Keys(new), 1, Len(old)) = Keys(old)

\* a step that made a save_logs call: line 238 of run or line 309 of _shutdown
FlushStep == (pc = "save" /\ pc' = "sleep") \/ (pc = "sleep" /\ pc' = "stopped")

\* every step leaves every record of the four logs in its place (a sweep
\* writes outcome fields of records, it moves none)
LogsKeepRecords ==
    [][/\ Extends(all_races_log, all_races_log')
       /\ Extends(all_runners_log, all_runners_log')
       /\ Extends(all_predictions_log, all_predictions_log')
       /\ Extends(bets_placed_log, bets_placed_log')]_vars

\* C25: the four session logs only grow: no step removes or reorders a record
\* of any of them, a save_logs call leaves all four as they were, and what a
\* save_logs call writes holds every record the call before it wrote
C25_LogsOnlyGrow ==
    /\ LogsKeepRecords
    /\ [][FlushStep =>
            /\ all_races_log' = all_races_log
            /\ all_runners_log' = all_runners_log
            /\ all_predictions_log' = all_predictions_log
            /\ bets_placed_log' = bets_placed_log
            /\ Extends(flushed.races, flushed'.races)
            /\ Extends(flushed.runners, flushed'.runners)
            /\ Extends(flushed.predictions, flushed'.predictions)
            /\ Extends(flushed.bets, flushed'.bets)]_vars

\* a save_logs call wrote records, the log grew, and a later call wrote the
\* longer log
C25_Witness == flushed.grown /\ Len(flushed.races) > 1

\* C26: _shutdown cancels every timer that still waits: once it has run,
\* active_timers is empty, no timer waits any more, a cancelled timer stays
\* cancelled and no process_race call begins
C26_ShutdownCancelsTimers ==
    /\ [](pc = "stopped" =>
            /\ \A m \in Ids : active_timers[m] = 0
            /\ \A h \in Handles : timers[h].st # "armed")
    /\ [][/\ \A h \in Handles : timers[h].st = "cancelled" => timers'[h].st = "cancelled"
          /\ pc = "stopped" => invocations' = invocations]_vars

\* _shutdown has run and cancelled a timer, and the time at which that timer
\* would have called process_race has come
C26_Witness ==
    /\ pc = "stopped"
    /\ \E h \in Handles : /\ timers[h].st = "cancelled"
                           /\ now >= timers[h].fire_at
                           /\ invocations[timers[h].market_id] = 0

\* C27: once the signal handler has set running to False no process_race call
\* begins, neither from a timer nor from the scan in progress
C27_NoExecutionAfterSignal ==
    [][~running => invocations' = invocations]_vars

\* C28: when the process ends, save_logs has been called exactly once since
\* the signal
C28_OneFlushAfterSignal ==
    pc = "stopped" => saves_after_signal = 1

\* C29: once running is False the poll loop ends and _shutdown runs to its
\* end, whatever the timer callbacks in flight do
C29_ShutdownCompletes ==
    ~running ~> pc = "stopped"

\* _shutdown has run to its end while a timer callback was inside
\* process_race or its finally block
C29_Witness ==
    /\ pc = "stopped"
    /\ \E h \in Handles : timers[h].st \in {"running", "release", "pop"}

\* C30: with a lead time greater than or equal to the scan interval the runner
\* never polls, never reserves or schedules a market, never arms a timer and
\* never calls process_race
C30_InvalidConfigRejected ==
    target_minutes_before_race >= scan_interval_minutes =>
        /\ pc \in {"main", "rejected"}
        /\ first_poll < 0
        /\ scheduled_races = {}
        /\ timers = <<>>
        /\ \A m \in Ids : reserved_count[m] = 0 /\ invocations[m] = 0

\* the validation has run on a lead time equal to the scan interval and the
\* process has exited
C30_Witness ==
    /\ pc = "rejected"
    /\ target_minutes_before_race >= scan_interval_minutes

\* the polled events the scan has not considered yet
Unconsidered == IF pc = "decide" THEN Tail(races) ELSE races

\* C31: a failure while one event is handled ends neither the scan nor the
\* poll loop: the scan goes to its end only when every event the poll
\* returned has been considered
C31_FailureIsolated ==
    [][(pc \in {"scan", "decide"} /\ pc' \notin {"scan", "decide", "sync_run"})
          => (pc' = "save" /\ Unconsidered = <<>>)]_vars

\* the step at which process_race, called for m by the scheduler, returns
\* after line 379 has put m into pending_results
EnrollStep(m) ==
    \/ m \in DOMAIN pending_results' /\ m \notin DOMAIN pending_results
    \/ /\ pc = "sync_run" /\ pc' = "sync_release"
       /\ Head(races) = m
       /\ sync_call'.result = "OK"
    \/ \E h \in Handles : /\ timers[h].market_id = m
                          /\ timers[h].st = "running" /\ timers'[h].st = "release"
                          /\ timers'[h].call.result = "OK"

\* the step at which _schedule_race takes the branch of lines 100-104 for m
DeferStep(m) == pc = "decide" /\ pc' = "scan" /\ Head(races) = m /\ m \notin scheduled_races'

StatedRule(r) ==
    \/ 50 <= r.ltp /\ r.ltp <= 100 /\ r.p >= 35
    \/ 100 <= r.ltp /\ r.ltp <= 200 /\ r.p >= 25

\* C33: identify_betting_opportunities returns one opportunity, for the runner
\* of highest calibrated probability, exactly when that runner meets the
\* stated rule, and none in every other case
C33_OpportunityRule ==
    identified # None =>
        LET top == TopRunner(prediction_results) IN
        /\ \A j \in DOMAIN prediction_results : prediction_results[j].p <= top.p
        /\ Len(identified) <= 1
        /\ \A i \in DOMAIN identified : /\ identified[i].selection_id = top.selection_id
                                        /\ identified[i].runner_odds = top.ltp
        /\ identified # <<>> <=> StatedRule(top)

\* C34: every record a process_race call appends, a call in flight when
\* _shutdown began included, is in a flush: once _shutdown has run, the four
\* logs hold nothing that the last save_logs call did not write
C34_InFlightRecordsFlushed ==
    pc = "stopped" =>
        /\ all_races_log = flushed.races
        /\ all_runners_log = flushed.runners
        /\ all_predictions_log = flushed.predictions
        /\ bets_placed_log = flushed.bets

LatestTimer(m) ==
    IF \E h \in Handles : timers[h].market_id = m
    THEN CHOOSE h \in Handles : /\ timers[h].market_id = m
                                /\ \A g \in Handles : timers[g].market_id = m => g <= h
    ELSE 0

\* C36: an entry of active_timers refers to the timer armed last for its
\* market, which still waits or whose callback still runs, and the cleanup
\* of a finishing execution removes no handle but its own
C36_EntriesAreLive ==
    /\ [](\A m \in Ids :
            active_timers[m] # 0 =>
                /\ active_timers[m] = LatestTimer(m)
                /\ timers[active_timers[m]].st \in {"armed", "running", "release", "pop"})
    /\ [][\A m \in Ids :
            (active_timers[m] # 0 /\ active_timers'[m] = 0 /\ pc' # "stopped")
                => /\ timers[active_timers[m]].st = "pop"
                   /\ timers'[active_timers[m]].st = "done"]_vars

\* the locks thread t holds
Holds(t) ==
    (IF scheduled_races_lock = t THEN {"scheduled_races_lock"} ELSE {})
        \cup (IF timers_lock = t THEN {"timers_lock"} ELSE {})

\* thread t can take its next step: it is not waiting for a lock that
\* another thread holds
CanStep(t) ==
    LET step == LockProgram(lock_pc[t]) IN
    \/ step.op \in {"release", "start"}
    \/ step.op = "acquire" /\ step.lock = "scheduled_races_lock" /\ scheduled_races_lock = Free
    \/ step.op = "acquire" /\ step.lock = "timers_lock" /\ timers_lock = Free

\* the positions inside the with blocks that read or write scheduled_races
\* (183-184, 83-86, 104, 148) and active_timers (116, 150, 301-303)
InScheduledRaces == {"l183", "l86", "l104", "l148", "c148"}
InActiveTimers == {"l116", "l150", "l303", "c150"}

\* C37: no thread holds both locks, a thread that reads and writes
\* scheduled_races or active_timers holds the lock of it, and the threads
\* never block one another for good: whenever a thread waits for a lock,
\* some thread can take a step
C37_NoDeadlock ==
    /\ \A t \in LockThreads : Cardinality(Holds(t)) <= 1
    /\ \A t \in LockThreads :
          /\ lock_pc[t] \in InScheduledRaces => scheduled_races_lock = t
          /\ lock_pc[t] \in InActiveTimers => timers_lock = t
    /\ (\E t \in LockThreads : LockProgram(lock_pc[t]).op = "acquire")
          => \E t \in LockThreads : CanStep(t)

\* the poll loop waits at line 300 of _shutdown for timers_lock, which a
\* callback holds for its pop, while the other callback waits as well
C37_Witness ==
    /\ lock_pc["poll"] = "l300"
    /\ timers_lock \in LockThreads \ {"poll"}
    /\ \E t \in LockThreads \ {"poll"} : lock_pc[t] = "c149"

\* C38: with a lead time above 0, _schedule_race never takes the defer branch
\* for a market a poll returned: it leaves the decision of lines 96-104 either
\* into the synchronous call of _process_scheduled_race or with a new timer,
\* and the reservation of the market stays
C38_NeverDeferred ==
    [][(target_minutes_before_race > 0 /\ pc = "decide" /\ pc' # "decide")
          => /\ \A m \in Ids : ~DeferStep(m)
             /\ Head(races) \in scheduled_races'
             /\ \/ pc' = "sync_run"
                \/ /\ Len(timers') = Len(timers) + 1
                   /\ timers'[Len(timers')].market_id = Head(races)
                   /\ timers'[Len(timers')].delay <= scan_interval_minutes * 60]_vars

\* a market that starts exactly one scan window after the first poll was
\* returned by that poll and got its timer in the same minute
C38_Witness ==
    /\ target_minutes_before_race > 0
    /\ \E h \in Handles :
          /\ race_time[timers[h].market_id] = first_poll + scan_interval_minutes
          /\ timers[h].delay = (scan_interval_minutes - target_minutes_before_race) * 60
          /\ timers[h].st = "armed"

\* C39: a call of _make_api_request sends at most two requests and logs in
\* at most once, the login comes after the first request only, and a session
\* error on the request made after the login, or a login that fails, makes
\* the call return None at once
C39_AtMostOneRetry ==
    /\ [](/\ api_request.attempts <= 2
          /\ api_request.logins <= 1
          /\ api_request.logins <= api_request.attempts
          /\ (api_request.pc = "login" => api_request.attempts = 1 /\ api_request.logins = 0)
          /\ (api_request.attempts = 2 => api_request.logins = 1))
    /\ [][/\ (api_request.pc = "post" /\ api_request.logins = 1 /\ api_request'.answer # "result")
               => (api_request'.pc = "returned" /\ api_request'.result = <<None>> /\ api_request'.logins = 1)
          /\ (api_request.pc = "login" /\ api_request'.pc # "entry")
               => (api_request'.pc = "returned" /\ api_request'.result = <<None>> /\ api_request'.attempts = 1)]_vars

\* the request made after the login was answered with the session error too,
\* and the call returned None
C39_Witness ==
    /\ api_request.pc = "returned"
    /\ api_request.attempts = 2
    /\ api_request.logins = 1
    /\ api_request.answer = "INVALID_SESSION_INFORMATION"
    /\ api_request.result = <<None>>

====
